---- MODULE Spec2Model ----
(***************************************************************************)
(* State-machine model of ascii-art.py: the pipeline of main()             *)
(* (get_user_config, resize, generate_ascii_art, create_text_file,         *)
(* textfile_to_image, save) and the functions it is built from.            *)
(*                                                                         *)
(* Conventions.                                                            *)
(*   - Python's None is the empty tuple <<>>, a present value v is <<v>>.  *)
(*   - A string of the program that is sliced or scanned (the ASCII text,  *)
(*     a -w argument) is a sequence of one-character strings.              *)
(*   - A file path is the sequence of its components; "" (no directory)    *)
(*     is the empty sequence.                                              *)
(*   - A pixel is a tuple of its bands: <<v>> in mode "L", <<r,g,b>> in    *)
(*     mode "RGB".                                                         *)
(*   - Font measurements are integers counted in 1/MetricDen pixels.       *)
(***************************************************************************)
EXTENDS Integers, Sequences, FiniteSets, TLC

VARIABLES
    pc,                \* position of the run: the statement of main() to execute next
    args,              \* argparse namespace: resize_image_width, output, font_file
    opened_image,      \* the image as Image.open returned it (line 154), None before
    image,             \* main's local `image`
    new_image_width,   \* main's local `new_image_width`
    output_filename,   \* main's local `output_filename`
    user_font_file,    \* the module global `user_font_file`
    show_warnings,     \* argument of a direct get_font_object call
    font,              \* font object returned by the last get_font_object call
    ascii_str,         \* result of a direct pixels_to_ascii_chars call
    ascii_img_text,    \* main's local `ascii_img_text`
    canvas,            \* the image textfile_to_image returned
    fs,                \* file system: existing directories, files and their content
    env,               \* platform: operating system, font files on disk, font metrics
    stdout,            \* the kinds of messages printed so far
    exception,         \* the exception that ended the run, None if none
    exit_status        \* argument of sys.exit, None while running

vars == <<pc, args, opened_image, image, new_image_width, output_filename,
          user_font_file, show_warnings, font, ascii_str, ascii_img_text,
          canvas, fs, env, stdout, exception, exit_status>>

None == <<>>
Some(v) == <<v>>

-----------------------------------------------------------------------------
(* Bounds of the model *)

MaxWidth == 2          \* widest source image
MaxHeight == 2         \* tallest source image
MaxNewWidth == 3       \* largest width passed to resize / given with -w
MaxMetric == 2         \* largest font measurement, in 1/MetricDen pixels
MetricDen == 2         \* font measurements are multiples of 1/MetricDen pixel
MaxTextLen == 4        \* longest text file handed to textfile_to_image directly
MaxPixels == 4         \* most pixels of an image handed to generate_ascii_art directly

-----------------------------------------------------------------------------
(* Globals, lines 22-24 *)

ASCII_CHARS == <<"#", "@", "%", "8", "9", "$", "7", "*", "?", "+", "-", ";", ":", ",", ".", " ">>
ASCII_WHITE_INDEX == Len(ASCII_CHARS) - 1
DEFAULT_OUTPUT_FILENAME == <<"ascii_image">>

NEWLINE == "\n"

-----------------------------------------------------------------------------
(* Arithmetic helpers *)

Max(S) == CHOOSE m \in S : \A y \in S : y <= m

\* math.ceil of the rational n/d, d > 0
CeilDiv(n, d) == -((-n) \div d)

\* float.__round__ of the exact rational n/d (n >= 0, d > 0): round half to even
RoundHalfEven(n, d) ==
    LET q == n \div d
        r == n % d
    IN  IF 2 * r < d THEN q
        ELSE IF 2 * r > d THEN q + 1
        ELSE IF q % 2 = 0 THEN q ELSE q + 1

\* float.__round__ of a value that was computed in floating point and whose
\* exact value is n/d: off a tie the nearest integer; on a tie the accumulated
\* rounding error of the float operations decides the side
\* (1/(5/7)*(1*(15/14)) rounds to 1, 1/(6/5)*(1*(27/5)) rounds to 5).
RoundFloat(n, d) ==
    IF 2 * (n % d) = d THEN {n \div d, n \div d + 1} ELSE {RoundHalfEven(n, d)}

-----------------------------------------------------------------------------
(* Images *)

\* truncated: the file's header was readable and its pixel data is not, which
\* PIL reports when the image is first loaded, not when it is opened
Image_new(mode, width, height, pixels) ==
    [mode |-> mode, width |-> width, height |-> height, pixels |-> pixels,
     truncated |-> FALSE]

\* ImageConvert "L": PIL's ITU-R 601-2 luma transform of an RGB pixel; an "L"
\* pixel is copied.
Luma(px) ==
    IF Len(px) = 1 THEN px[1]
    ELSE (px[1] * 19595 + px[2] * 38470 + px[3] * 7471 + 32768) \div 65536

convert_image_to_grayscale(img) ==
    Image_new("L", img.width, img.height,
              [i \in 1..Len(img.pixels) |-> <<Luma(img.pixels[i])>>])

-----------------------------------------------------------------------------
(* pixels_to_ascii_chars, lines 163-173 *)

divisor == 255 \div (Len(ASCII_CHARS) - 2) + 1

\* 0-based index into ASCII_CHARS chosen for one grayscale pixel (line 171)
MutRampIndexNoWhite(pixel) == pixel \div divisor

MutRampIndexReversed(pixel) ==
    IF pixel # 255 THEN ASCII_WHITE_INDEX - pixel \div divisor ELSE ASCII_WHITE_INDEX

RampIndex(pixel) ==
    IF pixel # 255 THEN pixel \div divisor ELSE ASCII_WHITE_INDEX

pixels_to_ascii_chars(img) ==
    [i \in 1..Len(img.pixels) |-> ASCII_CHARS[RampIndex(img.pixels[i][1]) + 1]]

-----------------------------------------------------------------------------
(* generate_ascii_art, lines 99-109 *)

\* range(0, n, step) as the sequence of its values
Range0(n, step) == [k \in 1..CeilDiv(n, step) |-> (k - 1) * step]

\* s[i:j] for 0 <= i <= j
Slice(s, i, j) == SubSeq(s, i + 1, IF j < Len(s) THEN j ELSE Len(s))

RECURSIVE JoinRows(_, _, _)
JoinRows(str, starts, img_width) ==
    IF starts = <<>> THEN <<>>
    ELSE Slice(str, Head(starts), Head(starts) + img_width) \o <<NEWLINE>>
         \o JoinRows(str, Tail(starts), img_width)

MutGenerateNoFinalNewline(input_image) ==
    LET t == JoinRows(pixels_to_ascii_chars(convert_image_to_grayscale(input_image)),
                      Range0(Len(input_image.pixels), input_image.width),
                      input_image.width)
    IN  IF t = <<>> THEN t ELSE SubSeq(t, 1, Len(t) - 1)

generate_ascii_art(input_image) ==
    LET greyscale_image == convert_image_to_grayscale(input_image)
        str == pixels_to_ascii_chars(greyscale_image)
        img_width == greyscale_image.width
    IN  JoinRows(str, Range0(Len(str), img_width), img_width)

-----------------------------------------------------------------------------
(* Results of a call: a returned value or a raised exception, with what the
   call printed *)

Ok(v, printed) == [exc |-> None, val |-> v, out |-> printed]
Raise(e, printed) == [exc |-> Some(e), val |-> None, out |-> printed]

-----------------------------------------------------------------------------
(* Platform, lines 31, 217-232 *)

OperatingSystems == {"Windows", "Linux", "Darwin", "Java"}
USER_FONT == "user.ttf"

\* os.path.isfile on a font path
file_exists(filename, e) == filename \in e.font_files

\* the branches of lines 220-226; None when no branch binds possible_fonts
possible_fonts(operating_system) ==
    IF operating_system = "Windows" THEN Some(<<"c:/windows/fonts/consola.ttf">>)
    ELSE IF operating_system = "Linux"
        THEN Some(<<"/usr/share/fonts/truetype/freefont/FreeMono.ttf",
                    "/usr/share/fonts/truetype/ubuntu/UbuntuMono-R.ttf">>)
    ELSE IF operating_system = "Darwin" THEN Some(<<"/System/Library/Fonts/Monaco.ttf">>)
    ELSE None

RECURSIVE FirstExisting(_, _)
FirstExisting(fonts, e) ==
    IF fonts = <<>> THEN None
    ELSE IF file_exists(Head(fonts), e) = TRUE THEN Some(Head(fonts))
    ELSE FirstExisting(Tail(fonts), e)

get_monospace_font_filename(e) ==
    LET fonts == possible_fonts(e.operating_system)
    IN  IF fonts = None THEN Raise("UnboundLocalError", <<>>)
        ELSE LET found == FirstExisting(fonts[1], e)
             IN  IF found # None THEN Ok(found[1], <<>>)
                 ELSE Raise("FileNotFoundError", <<>>)

-----------------------------------------------------------------------------
(* get_font_object, lines 68-82 *)

FONT_SIZE == 12

get_font_object(uff, e, warn) ==
    LET chosen == IF uff # "" /\ file_exists(uff, e)
                      THEN Ok(uff, <<>>)
                      ELSE get_monospace_font_filename(e)
    IN  IF chosen.exc # None THEN chosen
        ELSE LET font_filename == chosen.val
                 warning == IF warn = TRUE /\ uff # "" /\ ~file_exists(uff, e)
                                THEN <<"Warning: could not find user-specified font file">>
                                ELSE <<>>
             IN  IF font_filename \in e.unreadable
                     THEN Raise("OSError", warning \o <<"Could not load font">>)
                     ELSE Ok([path |-> font_filename, size |-> FONT_SIZE], warning)

-----------------------------------------------------------------------------
(* Font measurements: font.getbbox, as used on lines 252-253, 258-260, 272-273.
   A monospace font advances e.advance per character; a line reaches down to
   the lowest of its glyphs, e.desc_bottom for the glyphs with a descender and
   e.base_bottom for the others ("M" among them); the empty string measures
   0 wide and e.empty_bottom high.  All in 1/MetricDen pixels. *)

Descenders == {"$", ";", ","}

GlyphBottom(c, e) == IF c \in Descenders THEN e.desc_bottom ELSE e.base_bottom

getbbox(f, s, e) ==
    <<0, 0, Len(s) * e.advance,
      IF s = <<>> THEN e.empty_bottom
      ELSE Max({GlyphBottom(s[i], e) : i \in 1..Len(s)})>>

-----------------------------------------------------------------------------
(* calc_font_aspect_ratio, lines 268-275: the ratio as <<numerator, denominator>> *)

calc_font_aspect_ratio(uff, e) ==
    LET got == get_font_object(uff, e, FALSE)
    IN  IF got.exc # None THEN got
        ELSE LET Mbox_width == getbbox(got.val, <<"M">>, e)[3]
                 Mbox_height == getbbox(got.val, <<"M">>, e)[4]
             IN  Ok(<<Mbox_height, Mbox_width>>, got.out)

-----------------------------------------------------------------------------
(* resize, lines 176-214 *)

\* Image.resize of PIL: the pixel data is loaded first, the same size is a copy,
\* a zero size is refused, otherwise every output pixel is resampled from the
\* input (here: the input pixel under the output pixel's centre).
Image_resize(img, w, h) ==
    IF img.truncated THEN Raise("OSError", <<>>)
    ELSE IF w = img.width /\ h = img.height THEN Ok(img, <<>>)
    ELSE IF w < 1 \/ h < 1 THEN Raise("ValueError", <<>>)
    ELSE Ok([img EXCEPT
                !.width = w,
                !.height = h,
                !.pixels = [i \in 1..(w * h) |->
                    LET x == (i - 1) % w
                        y == (i - 1) \div w
                        sx == ((2 * x + 1) * img.width) \div (2 * w)
                        sy == ((2 * y + 1) * img.height) \div (2 * h)
                    IN  img.pixels[sy * img.width + sx + 1]]], <<>>)

\* the heights line 212-214 can produce, from the exact value
\* new_width * (height / width) / (Mbox_height / Mbox_width)
MutNewHeightsNoFontCorrection(img, new_width, ratio) ==
    RoundFloat(new_width * img.height, img.width)

NewHeights(img, new_width, ratio) ==
    RoundFloat(new_width * img.height * ratio[2], img.width * ratio[1])

\* the outcomes of resize(image, new_width): a set, one element unless the
\* rounded height is on a tie
MutResizeIgnoresNone(img, new_width, uff, e) ==
    LET far == calc_font_aspect_ratio(uff, e)
        w == IF new_width = None THEN img.width ELSE new_width[1]
    IN  IF far.exc # None THEN {far}
        ELSE {[Image_resize(img, w, h) EXCEPT !.out = far.out] :
                 h \in NewHeights(img, w, far.val)}

resize(img, new_width, uff, e) ==
    IF new_width = None THEN {Ok(img, <<>>)}
    ELSE IF new_width[1] <= 0 THEN {Ok(img, <<>>)}
    ELSE LET far == calc_font_aspect_ratio(uff, e)
         IN  IF far.exc # None THEN {far}
             ELSE {[Image_resize(img, new_width[1], h) EXCEPT !.out = far.out] :
                      h \in NewHeights(img, new_width[1], far.val)}

-----------------------------------------------------------------------------
(* Files: get_output_filenames_with_ext (112-117), create_text_file (62-65),
   read_all_lines_rstrip (245-248).  The file system is a record: dirs, the
   existing directories; files, the content of each existing file; created,
   the directories and files this run has created or written. *)

WithExt(filename, ext) ==
    [filename EXCEPT ![Len(filename)] = @ \o "." \o ext]

get_output_filenames_with_ext(filename) ==
    <<WithExt(filename, "txt"), WithExt(filename, "png")>>

\* os.path.dirname
dirname(path) == SubSeq(path, 1, Len(path) - 1)

dir_exists(dir_name, f) == dir_name \in f.dirs

\* os.mkdir: the parent directory has to exist
create_dir(dir_name, f) ==
    IF dirname(dir_name) # <<>> /\ ~dir_exists(dirname(dir_name), f)
        THEN [Raise("FileNotFoundError", <<>>) EXCEPT !.val = f]
        ELSE Ok([f EXCEPT !.dirs = @ \cup {dir_name},
                          !.created = @ \cup {dir_name}], <<>>)

\* open(path, "w") followed by write(content) and close
WriteFile(f, path, content) ==
    [f EXCEPT !.files = [q \in DOMAIN @ \cup {path} |->
                            IF q = path THEN content ELSE @[q]],
              !.created = @ \cup {path}]

\* the file system after create_text_file; writable: whether open(..., "w")
\* succeeds
create_text_file(f, output_text_filename, text_content, writable) ==
    LET dir_name == dirname(output_text_filename)
        made == IF dir_name # <<>> /\ ~dir_exists(dir_name, f)
                    THEN create_dir(dir_name, f)
                    ELSE Ok(f, <<>>)
    IN  IF made.exc # None THEN made
        ELSE IF ~writable THEN [Raise("OSError", <<>>) EXCEPT !.val = made.val]
        ELSE Ok(WriteFile(made.val, output_text_filename, text_content), <<>>)

Whitespace == {" ", NEWLINE}

\* str.rstrip(): the line up to its last character that is not whitespace
rstrip(line) ==
    LET kept == {i \in 1..Len(line) : line[i] \notin Whitespace}
    IN  SubSeq(line, 1, IF kept = {} THEN 0 ELSE Max(kept))

\* f.readlines(): the lines of the text, each with its terminator; a last line
\* without a terminator is a line too
readlines(text) ==
    LET ends == {i \in 1..Len(text) : text[i] = NEWLINE \/ i = Len(text)}
        EndOf(k) == CHOOSE e \in ends : Cardinality({x \in ends : x <= e}) = k
    IN  [k \in 1..Cardinality(ends) |->
            SubSeq(text, IF k = 1 THEN 1 ELSE EndOf(k - 1) + 1, EndOf(k))]

read_all_lines_rstrip(f, textfile_path) ==
    IF textfile_path \notin DOMAIN f.files THEN Raise("FileNotFoundError", <<>>)
    ELSE LET raw == readlines(f.files[textfile_path])
         IN  Ok([i \in 1..Len(raw) |-> rstrip(raw[i])], <<>>)

-----------------------------------------------------------------------------
(* The renderer: lines 251-265, 235-242, 120-123, 85-96 *)

\* max(lines, key = ...) raises ValueError on an empty sequence
calc_widest_line_in_pixels(lines, f, e) ==
    IF lines = <<>> THEN Raise("ValueError", <<>>)
    ELSE Ok(CeilDiv(Max({getbbox(f, lines[i], e)[3] : i \in 1..Len(lines)}), MetricDen),
            <<>>)

\* in 1/MetricDen pixels
calc_tallest_line_in_pixels(lines, f, e) ==
    IF lines = <<>> THEN Raise("ValueError", <<>>)
    ELSE Ok(Max({getbbox(f, lines[i], e)[4] : i \in 1..Len(lines)}), <<>>)

sum_pixel_height_for_all_lines(lines, f, e) ==
    LET max_line_height == calc_tallest_line_in_pixels(lines, f, e)
    IN  IF max_line_height.exc # None THEN max_line_height
        ELSE Ok(<<CeilDiv(max_line_height.val * Len(lines), MetricDen),
                  max_line_height.val>>, <<>>)

\* the canvas of line 241 with disable_antialiasing (35) applied and the
\* renderer.text calls of line 123 recorded in order
draw_text_strings_as_graphical_lines(lines, line_height) ==
    [i \in 1..Len(lines) |->
        [xy |-> <<0, RoundHalfEven((i - 1) * line_height, MetricDen)>>,
         text |-> lines[i], fill |-> 0]]

textfile_to_image(f, textfile_path, uff, e) ==
    LET lines == read_all_lines_rstrip(f, textfile_path)
        fnt == get_font_object(uff, e, TRUE)
        heights == sum_pixel_height_for_all_lines(lines.val, fnt.val, e)
        image_width == calc_widest_line_in_pixels(lines.val, fnt.val, e)
    IN  IF lines.exc # None THEN lines
        ELSE IF fnt.exc # None THEN fnt
        ELSE IF heights.exc # None THEN [heights EXCEPT !.out = fnt.out]
        ELSE IF image_width.exc # None THEN [image_width EXCEPT !.out = fnt.out]
        ELSE Ok([mode |-> "L", width |-> image_width.val, height |-> heights.val[1],
                 background |-> 255, fontmode |-> "1", font |-> fnt.val,
                 line_height |-> heights.val[2],
                 texts |-> draw_text_strings_as_graphical_lines(lines.val, heights.val[2])],
                fnt.out)

-----------------------------------------------------------------------------
(* get_user_config, lines 151-160, with the command line of lines 136-148 *)

Digits == <<"0", "1", "2", "3", "4", "5", "6", "7", "8", "9">>

IsDigit(c) == \E d \in 1..Len(Digits) : Digits[d] = c
DigitValue(c) == (CHOOSE d \in 1..Len(Digits) : Digits[d] = c) - 1

RECURSIVE ParseDigits(_, _)
ParseDigits(text, acc) ==
    IF text = <<>> THEN Some(acc)
    ELSE IF ~IsDigit(Head(text)) THEN None
    ELSE ParseDigits(Tail(text), 10 * acc + DigitValue(Head(text)))

\* int(text, base=10): None stands for ValueError
ParseInt(text) ==
    IF text = <<>> THEN None
    ELSE IF Head(text) = "-"
        THEN (IF Tail(text) = <<>> \/ ParseDigits(Tail(text), 0) = None THEN None
              ELSE Some(0 - ParseDigits(Tail(text), 0)[1]))
    ELSE ParseDigits(text, 0)

\* str(n) for n >= 0, the text a user types for the width n
RECURSIVE DecimalText(_)
DecimalText(n) ==
    IF n < 10 THEN <<Digits[n + 1]>>
    ELSE Append(DecimalText(n \div 10), Digits[(n % 10) + 1])

NoImage == [mode |-> "", width |-> 0, height |-> 0, pixels |-> <<>>, truncated |-> FALSE]

\* the tuple get_user_config returns for the parsed arguments a and what
\* Image.open(path) gave
MutGetUserConfigWidthNone(a, opened) ==
    IF opened.exc # None THEN opened
    ELSE IF a.resize_image_width # None /\ ParseInt(a.resize_image_width[1]) = None
        THEN Raise("ValueError", <<>>)
    ELSE Ok([image |-> opened.val,
             new_image_width |-> IF a.resize_image_width # None
                                     THEN ParseInt(a.resize_image_width[1])
                                     ELSE None,
             output_filename |-> IF a.output # None THEN a.output[1]
                                 ELSE DEFAULT_OUTPUT_FILENAME,
             font_file |-> IF a.font_file # None THEN a.font_file[1] ELSE ""],
            <<"FONT FILE">>)

get_user_config(a, opened) ==
    IF opened.exc # None THEN opened
    ELSE IF a.resize_image_width # None /\ ParseInt(a.resize_image_width[1]) = None
        THEN Raise("ValueError", <<>>)
    ELSE Ok([image |-> opened.val,
             new_image_width |-> IF a.resize_image_width # None
                                     THEN ParseInt(a.resize_image_width[1])
                                     ELSE Some(opened.val.width),
             output_filename |-> IF a.output # None THEN a.output[1]
                                 ELSE DEFAULT_OUTPUT_FILENAME,
             font_file |-> IF a.font_file # None THEN a.font_file[1] ELSE ""],
            <<"FONT FILE">>)

-----------------------------------------------------------------------------
(* The inputs and environments the model draws from *)

\* the font files whose presence the given operating system's lookup can see
RelevantFonts(operating_system) ==
    {USER_FONT} \cup
    (IF possible_fonts(operating_system) = None THEN {}
     ELSE {possible_fonts(operating_system)[1][i] :
              i \in 1..Len(possible_fonts(operating_system)[1])})

Platforms ==
    {[operating_system |-> o, font_files |-> present, unreadable |-> bad] :
        o \in OperatingSystems, present \in SUBSET (UNION {RelevantFonts(x) : x \in OperatingSystems}),
        bad \in SUBSET (UNION {RelevantFonts(x) : x \in OperatingSystems})}

Environments(plats, advances, bases, descs, empties) ==
    {[operating_system |-> p.operating_system, font_files |-> p.font_files,
      unreadable |-> p.unreadable, advance |-> a, base_bottom |-> b,
      desc_bottom |-> b + d, empty_bottom |-> IF z THEN b ELSE 0] :
        p \in plats, a \in advances, b \in bases, d \in descs, z \in empties}

\* every platform: each subset of the relevant font files present, each subset
\* of the present ones unreadable
AllPlatforms ==
    {p \in Platforms : /\ p.font_files \subseteq RelevantFonts(p.operating_system)
                       /\ p.unreadable \subseteq p.font_files}

\* the platforms whose font files, when present, load
SoundPlatforms == {p \in AllPlatforms : p.unreadable = {}}

\* a w x h grayscale image with a different intensity at neighbouring pixels
GradientImage(w, h) ==
    Image_new("L", w, h, [i \in 1..(w * h) |-> <<255 - (((i - 1) * 64) % 256)>>])

GradientImages ==
    {[GradientImage(w, h) EXCEPT !.truncated = t] :
        w \in 1..MaxWidth, h \in 1..MaxHeight, t \in BOOLEAN}

GraySamples == {<<0>>, <<64>>, <<128>>, <<255>>}
ColourSamples == {<<255, 0, 0>>, <<255, 255, 255>>}

Shapes(n) == {wh \in (1..n) \X (1..n) : wh[1] * wh[2] <= n}

SampledImages(n) ==
    UNION {{Image_new("L", wh[1], wh[2], px) : px \in [1..(wh[1] * wh[2]) -> GraySamples]} \cup
           {Image_new("RGB", wh[1], wh[2], px) : px \in [1..(wh[1] * wh[2]) -> ColourSamples]} :
              wh \in Shapes(n)}

WidthTexts == {DecimalText(n) : n \in 0..MaxNewWidth} \cup {<<"-", "1">>, <<"x">>}

ArgNamespaces ==
    {[resize_image_width |-> w, output |-> o, font_file |-> f] :
        w \in {None} \cup {Some(t) : t \in WidthTexts},
        o \in {None, Some(<<"out", "art">>), Some(<<"out", "sub", "art">>)},
        f \in {None, Some(USER_FONT)}}

OpenOutcomes ==
    {Raise("FileNotFoundError", <<>>), Raise("UnidentifiedImageError", <<>>)} \cup
    {Ok(img, <<>>) : img \in GradientImages}

OLD_TEXT == <<"o", "l", "d", NEWLINE>>

\* the disk before the run: the directory "out" may exist, and an earlier run
\* has left its text file under the default name
FileSystems ==
    {[dirs |-> d,
      files |-> [q \in {WithExt(DEFAULT_OUTPUT_FILENAME, "txt")} |-> OLD_TEXT],
      created |-> {}] : d \in {{}, {<<"out">>}}}

TextChars == {"#", "$", " ", NEWLINE}

RECURSIVE Texts(_)
Texts(n) ==
    IF n = 0 THEN {<<>>}
    ELSE Texts(n - 1) \cup
         {Append(t, c) : t \in {u \in Texts(n - 1) : Len(u) = n - 1}, c \in TextChars}

-----------------------------------------------------------------------------
(* The run *)

Thrown(type, raised_in) == Some([type |-> type, raised_in |-> raised_in])

text_filename == get_output_filenames_with_ext(output_filename)[1]
image_filename == get_output_filenames_with_ext(output_filename)[2]

\* line 43; the path is what prompt_for_image_file returns once the user has
\* typed a non-blank line
GetUserConfig ==
    /\ pc = "get_user_config"
    /\ \E a \in ArgNamespaces, opened \in OpenOutcomes :
          LET r == get_user_config(a, opened)
          IN  /\ args' = a
              /\ opened_image' = IF opened.exc = None THEN opened.val ELSE NoImage
              /\ stdout' = stdout \o r.out
              /\ IF r.exc # None
                     THEN /\ pc' = "except"
                          /\ exception' = Thrown(r.exc[1], "get_user_config")
                          /\ UNCHANGED <<image, new_image_width, output_filename,
                                         user_font_file>>
                     ELSE /\ pc' = "resize"
                          /\ image' = r.val.image
                          /\ new_image_width' = r.val.new_image_width
                          /\ output_filename' = r.val.output_filename
                          /\ user_font_file' = r.val.font_file
                          /\ UNCHANGED exception
    /\ UNCHANGED <<show_warnings, font, ascii_str, ascii_img_text, canvas, fs, env,
                   exit_status>>

\* line 44
Resize ==
    /\ pc = "resize"
    /\ \E r \in resize(image, new_image_width, user_font_file, env) :
          /\ stdout' = stdout \o r.out
          /\ IF r.exc # None
                 THEN /\ pc' = "except"
                      /\ exception' = Thrown(r.exc[1], "resize")
                      /\ UNCHANGED image
                 ELSE /\ pc' = "generate_ascii_art"
                      /\ image' = r.val
                      /\ UNCHANGED exception
    /\ UNCHANGED <<args, opened_image, new_image_width, output_filename, user_font_file,
                   show_warnings, font, ascii_str, ascii_img_text, canvas, fs, env,
                   exit_status>>

\* lines 46-49; image.convert loads the pixel data
GenerateAsciiArt ==
    /\ pc = "generate_ascii_art"
    /\ IF image.truncated
           THEN /\ pc' = "except"
                /\ exception' = Thrown("OSError", "generate_ascii_art")
                /\ UNCHANGED <<ascii_img_text, stdout>>
           ELSE /\ pc' = "create_text_file"
                /\ ascii_img_text' = generate_ascii_art(image)
                /\ stdout' = Append(stdout, "Generating ASCII art text string...")
                /\ UNCHANGED exception
    /\ UNCHANGED <<args, opened_image, image, new_image_width, output_filename,
                   user_font_file, show_warnings, font, ascii_str, canvas, fs, env,
                   exit_status>>

\* line 51
CreateTextFile ==
    /\ pc = "create_text_file"
    /\ \E writable \in BOOLEAN :
          LET r == create_text_file(fs, text_filename, ascii_img_text, writable)
          IN  /\ fs' = r.val
              /\ IF r.exc # None
                     THEN /\ pc' = "except"
                          /\ exception' = Thrown(r.exc[1], "create_text_file")
                     ELSE /\ pc' = "textfile_to_image"
                          /\ UNCHANGED exception
    /\ UNCHANGED <<args, opened_image, image, new_image_width, output_filename,
                   user_font_file, show_warnings, font, ascii_str, ascii_img_text,
                   canvas, env, stdout, exit_status>>

\* line 52, the call of textfile_to_image
TextfileToImage ==
    /\ pc = "textfile_to_image"
    /\ LET r == textfile_to_image(fs, text_filename, user_font_file, env)
       IN  /\ stdout' = stdout \o <<"Creating image version of ASCII text...">> \o r.out
           /\ IF r.exc # None
                  THEN /\ pc' = "except"
                       /\ exception' = Thrown(r.exc[1], "textfile_to_image")
                       /\ UNCHANGED canvas
                  ELSE /\ pc' = "save"
                       /\ canvas' = Some(r.val)
                       /\ UNCHANGED exception
    /\ UNCHANGED <<args, opened_image, image, new_image_width, output_filename,
                   user_font_file, show_warnings, font, ascii_str, ascii_img_text,
                   fs, env, exit_status>>

\* line 52, the call of save on the returned image; on a failure PIL removes
\* the file it had created
MutSaveImageOverText ==
    /\ pc = "save"
    /\ \E writable \in BOOLEAN :
          IF writable
              THEN /\ fs' = WriteFile(fs, text_filename, <<"PNG">>)
                   /\ pc' = "return"
                   /\ UNCHANGED exception
              ELSE /\ pc' = "except"
                   /\ exception' = Thrown("OSError", "save")
                   /\ UNCHANGED fs
    /\ UNCHANGED <<args, opened_image, image, new_image_width, output_filename,
                   user_font_file, show_warnings, font, ascii_str, ascii_img_text,
                   canvas, env, stdout, exit_status>>

SaveImage ==
    /\ pc = "save"
    /\ \E writable \in BOOLEAN :
          IF writable
              THEN /\ fs' = WriteFile(fs, image_filename, canvas[1])
                   /\ pc' = "return"
                   /\ UNCHANGED exception
              ELSE /\ pc' = "except"
                   /\ exception' = Thrown("OSError", "save")
                   /\ UNCHANGED fs
    /\ UNCHANGED <<args, opened_image, image, new_image_width, output_filename,
                   user_font_file, show_warnings, font, ascii_str, ascii_img_text,
                   canvas, env, stdout, exit_status>>

\* lines 54-57 and 291-296
MainReturns ==
    /\ pc = "return"
    /\ pc' = "exited"
    /\ exit_status' = Some(0)
    /\ stdout' = stdout \o <<"ASCII art text file generated", "Done.">>
    /\ UNCHANGED <<args, opened_image, image, new_image_width, output_filename,
                   user_font_file, show_warnings, font, ascii_str, ascii_img_text,
                   canvas, fs, env, exception>>

\* lines 297-300
MutExceptExitsZero ==
    /\ pc = "except"
    /\ pc' = "exited"
    /\ exit_status' = Some(0)
    /\ stdout' = Append(stdout, exception[1].type)
    /\ UNCHANGED <<args, opened_image, image, new_image_width, output_filename,
                   user_font_file, show_warnings, font, ascii_str, ascii_img_text,
                   canvas, fs, env, exception>>

TopLevelExcept ==
    /\ pc = "except"
    /\ pc' = "exited"
    /\ exit_status' = Some(-1)
    /\ stdout' = Append(stdout, exception[1].type)
    /\ UNCHANGED <<args, opened_image, image, new_image_width, output_filename,
                   user_font_file, show_warnings, font, ascii_str, ascii_img_text,
                   canvas, fs, env, exception>>

\* a call of pixels_to_ascii_chars on a grayscale image
PixelsToAsciiChars ==
    /\ pc = "pixels_to_ascii_chars"
    /\ pc' = "returned"
    /\ ascii_str' = pixels_to_ascii_chars(image)
    /\ UNCHANGED <<args, opened_image, image, new_image_width, output_filename,
                   user_font_file, show_warnings, font, ascii_img_text, canvas, fs,
                   env, stdout, exception, exit_status>>

\* a call of get_font_object(show_warnings)
GetFontObject ==
    /\ pc = "get_font_object"
    /\ LET r == get_font_object(user_font_file, env, show_warnings)
       IN  /\ stdout' = stdout \o r.out
           /\ IF r.exc # None
                  THEN /\ pc' = "raised"
                       /\ exception' = Thrown(r.exc[1], "get_font_object")
                       /\ UNCHANGED font
                  ELSE /\ pc' = "returned"
                       /\ font' = Some(r.val)
                       /\ UNCHANGED exception
    /\ UNCHANGED <<args, opened_image, image, new_image_width, output_filename,
                   user_font_file, show_warnings, ascii_str, ascii_img_text, canvas,
                   fs, env, exit_status>>

-----------------------------------------------------------------------------
(* Specifications *)

NoArgs == [resize_image_width |-> None, output |-> None, font_file |-> None]
NoFiles == [dirs |-> {}, files |-> <<>>, created |-> {}]
UnitMetrics == {MetricDen}

Start(at) ==
    /\ pc = at
    /\ args = NoArgs
    /\ font = None
    /\ ascii_str = <<>>
    /\ ascii_img_text = <<>>
    /\ canvas = None
    /\ stdout = <<>>
    /\ exception = None
    /\ exit_status = None

\* the program: a run of main() from the command line
Init ==
    /\ Start("get_user_config")
    /\ show_warnings = TRUE
    /\ opened_image = NoImage
    /\ image = NoImage
    /\ new_image_width = None
    /\ output_filename = DEFAULT_OUTPUT_FILENAME
    /\ user_font_file = ""
    /\ fs \in FileSystems
    /\ env \in Environments(SoundPlatforms, 1..MaxMetric, 1..MaxMetric, {0}, {FALSE})

Next ==
    \/ GetUserConfig
    \/ Resize
    \/ GenerateAsciiArt
    \/ CreateTextFile
    \/ TextfileToImage
    \/ SaveImage
    \/ MainReturns
    \/ TopLevelExcept

Spec == Init /\ [][Next]_vars

\* pixels_to_ascii_chars on every pair of intensities
InitQuant ==
    /\ Start("pixels_to_ascii_chars")
    /\ show_warnings = TRUE
    /\ opened_image \in {Image_new("L", 2, 1, <<<<p1>>, <<p2>>>>) : p1 \in 0..255, p2 \in 0..255}
    /\ image = opened_image
    /\ new_image_width = None
    /\ output_filename = DEFAULT_OUTPUT_FILENAME
    /\ user_font_file = ""
    /\ fs = NoFiles
    /\ env \in Environments(SoundPlatforms, UnitMetrics, UnitMetrics, {0}, {FALSE})
    /\ env.operating_system = "Linux" /\ env.font_files = {}

SpecQuant == InitQuant /\ [][PixelsToAsciiChars]_vars

\* generate_ascii_art on every small image
InitAscii ==
    /\ Start("generate_ascii_art")
    /\ show_warnings = TRUE
    /\ opened_image \in SampledImages(MaxPixels)
    /\ image = opened_image
    /\ new_image_width = None
    /\ output_filename = DEFAULT_OUTPUT_FILENAME
    /\ user_font_file = ""
    /\ fs = NoFiles
    /\ env \in Environments(SoundPlatforms, UnitMetrics, UnitMetrics, {0}, {FALSE})
    /\ env.operating_system = "Linux" /\ env.font_files = {}

SpecAscii == InitAscii /\ [][GenerateAsciiArt]_vars

\* resize(image, new_width) on every image, width and platform
InitResize ==
    /\ Start("resize")
    /\ show_warnings = TRUE
    /\ opened_image \in GradientImages
    /\ image = opened_image
    /\ new_image_width \in {None} \cup {Some(w) : w \in -1..MaxNewWidth}
    /\ output_filename = DEFAULT_OUTPUT_FILENAME
    /\ user_font_file \in {"", USER_FONT}
    /\ fs = NoFiles
    /\ env \in Environments(AllPlatforms, 1..MaxMetric, 1..MaxMetric, {0}, {FALSE})

SpecResize == InitResize /\ [][Resize]_vars

\* get_font_object(show_warnings) on every platform
InitFont ==
    /\ Start("get_font_object")
    /\ show_warnings \in BOOLEAN
    /\ opened_image = NoImage
    /\ image = NoImage
    /\ new_image_width = None
    /\ output_filename = DEFAULT_OUTPUT_FILENAME
    /\ user_font_file \in {"", USER_FONT}
    /\ fs = NoFiles
    /\ env \in Environments(AllPlatforms, UnitMetrics, UnitMetrics, {0}, {FALSE})

SpecFont == InitFont /\ [][GetFontObject]_vars

\* textfile_to_image on every short text file and font
InitRender ==
    /\ Start("textfile_to_image")
    /\ show_warnings = TRUE
    /\ opened_image = NoImage
    /\ image = NoImage
    /\ new_image_width = None
    /\ output_filename = DEFAULT_OUTPUT_FILENAME
    /\ user_font_file = ""
    /\ fs \in {[NoFiles EXCEPT !.files = [q \in {WithExt(DEFAULT_OUTPUT_FILENAME, "txt")} |-> t]] :
                  t \in Texts(MaxTextLen)}
    /\ env \in Environments(SoundPlatforms, 1..MaxMetric, 1..MaxMetric, {0, 1}, BOOLEAN)
    /\ env.operating_system = "Linux"

SpecRender == InitRender /\ [][TextfileToImage]_vars

-----------------------------------------------------------------------------
(* Properties *)

\* the 0-based position of a glyph in the ramp (the glyphs are distinct)
IndexOfGlyph(c) == CHOOSE i \in 0..(Len(ASCII_CHARS) - 1) : ASCII_CHARS[i + 1] = c

Abs(x) == IF x < 0 THEN 0 - x ELSE x

\* r is an integer nearest to the rational n/d (d > 0)
IsNearest(r, n, d) == 2 * Abs(r * d - n) <= d

Mbox_width == getbbox(font, <<"M">>, env)[3]
Mbox_height == getbbox(font, <<"M">>, env)[4]

\* C1: with the 16-glyph ramp the divisor is floor(255/14)+1 = 19, and every
\* pixel p of 0..255 is given the glyph at index 15 when p = 255 and at index
\* floor(p/19) otherwise; so 0 -> 0, 64 -> 3, 128 -> 6, 255 -> 15.
C1_QuantizerIndex ==
    pc = "returned" =>
        /\ Len(ASCII_CHARS) = 16
        /\ divisor = 19
        /\ Len(ascii_str) = Len(image.pixels)
        /\ \A i \in 1..Len(image.pixels) :
              LET p == image.pixels[i][1]
              IN  /\ ascii_str[i] = ASCII_CHARS[(IF p = 255 THEN 15 ELSE p \div 19) + 1]
                  /\ p = 0 => ascii_str[i] = ASCII_CHARS[0 + 1]
                  /\ p = 64 => ascii_str[i] = ASCII_CHARS[3 + 1]
                  /\ p = 128 => ascii_str[i] = ASCII_CHARS[6 + 1]
                  /\ p = 255 => ascii_str[i] = ASCII_CHARS[15 + 1]

C1_Witness ==
    /\ pc = "returned"
    /\ image.pixels = <<<<255>>, <<128>>>>
    /\ ascii_str = <<" ", "7">>

\* C2: for intensities p1 <= p2 the ramp index given to p1 is at most the one
\* given to p2, and 255 is always given the last (lightest) index.
C2_Monotonic ==
    pc = "returned" =>
        \A i, j \in 1..Len(image.pixels) :
            /\ image.pixels[i][1] <= image.pixels[j][1]
                   => IndexOfGlyph(ascii_str[i]) <= IndexOfGlyph(ascii_str[j])
            /\ image.pixels[i][1] = 255
                   => IndexOfGlyph(ascii_str[i]) = Len(ASCII_CHARS) - 1

C2_Witness ==
    /\ pc = "returned"
    /\ image.pixels = <<<<254>>, <<255>>>>
    /\ IndexOfGlyph(ascii_str[1]) = 13
    /\ IndexOfGlyph(ascii_str[2]) = 15

\* C3: resize called with new_width None or <= 0 returns its input image
\* unchanged (same width, height and pixel data), resolves and measures no
\* font (it succeeds on a platform without any font and prints nothing), and
\* raises nothing.
C3_ResizeIdentity ==
    (pc # "resize" /\ (new_image_width = None \/ new_image_width[1] <= 0)) =>
        /\ pc = "generate_ascii_art"
        /\ exception = None
        /\ image = opened_image
        /\ stdout = <<>>

C3_Witness ==
    /\ pc = "generate_ascii_art"
    /\ new_image_width = None
    /\ env.operating_system = "Java"
    /\ env.font_files = {}
    /\ image = opened_image
    /\ image.width = MaxWidth

\* C4 as stated: with the width left unset, the image leaving the resize stage
\* has the source image's dimensions.
C4_UnsetWidthKeepsDimensions ==
    (pc = "generate_ascii_art" /\ args.resize_image_width = None) =>
        /\ image.width = opened_image.width
        /\ image.height = opened_image.height

\* C4 amended: with the width left unset, get_user_config passes the source
\* width, so the image leaving the resize stage has the source width and the
\* height origHeight / (MboxHeight / MboxWidth) rounded to a nearest integer.
C4_UnsetWidthAspectCorrected ==
    (pc = "generate_ascii_art" /\ args.resize_image_width = None) =>
        /\ new_image_width = Some(opened_image.width)
        /\ image.width = opened_image.width
        /\ IsNearest(image.height, opened_image.height * Mbox_width, Mbox_height)

C4_Witness ==
    /\ pc = "generate_ascii_art"
    /\ args.resize_image_width = None
    /\ opened_image.width = 2 /\ opened_image.height = 2
    /\ Mbox_height = 2 * Mbox_width
    /\ image.width = 2 /\ image.height = 1

\* C5: resize(image, W) with W > 0 returns an image of width W and of height
\* W * (origHeight / origWidth) / (MboxHeight / MboxWidth) rounded to a nearest
\* integer.
C5_ResizeDimensions ==
    (pc = "generate_ascii_art" /\ new_image_width # None /\ new_image_width[1] > 0) =>
        /\ image.width = new_image_width[1]
        /\ IsNearest(image.height,
                     new_image_width[1] * opened_image.height * Mbox_width,
                     opened_image.width * Mbox_height)

C5_Witness ==
    /\ pc = "generate_ascii_art"
    /\ new_image_width = Some(3)
    /\ opened_image.width = 2 /\ opened_image.height = 1
    /\ Mbox_width = 2 /\ Mbox_height = 1
    /\ image.width = 3 /\ image.height = 3

\* C6: for an image of width w >= 1 and height h >= 1 generate_ascii_art
\* returns h lines in row-major pixel order, each of exactly w ramp characters
\* and each followed by exactly one newline; the 2x2 image [0, 128, 255, 64]
\* gives ramp[0] ramp[6] newline ramp[15] ramp[3] newline.
C6_AssembledDocument ==
    pc = "create_text_file" =>
        LET w == image.width
            h == image.height
            t == ascii_img_text
        IN  /\ Len(t) = h * (w + 1)
            /\ \A r \in 1..h :
                  /\ t[r * (w + 1)] = NEWLINE
                  /\ \A c \in 1..w :
                        /\ t[(r - 1) * (w + 1) + c] # NEWLINE
                        /\ t[(r - 1) * (w + 1) + c]
                               = ASCII_CHARS[RampIndex(Luma(image.pixels[(r - 1) * w + c])) + 1]
            /\ (w = 2 /\ image.pixels = <<<<0>>, <<128>>, <<255>>, <<64>>>>)
                   => t = <<ASCII_CHARS[1], ASCII_CHARS[7], NEWLINE,
                            ASCII_CHARS[16], ASCII_CHARS[4], NEWLINE>>

C6_Witness ==
    /\ pc = "create_text_file"
    /\ image.width = 2 /\ image.height = 2
    /\ image.pixels = <<<<0>>, <<128>>, <<255>>, <<64>>>>
    /\ ascii_img_text = <<"#", "7", NEWLINE, " ", "8", NEWLINE>>

\* the render stage has been entered: main is at or past the call of
\* textfile_to_image, or ended in an exception raised there or in save
RenderStarted ==
    \/ pc \in {"textfile_to_image", "save", "return"}
    \/ exception # None /\ exception[1].raised_in \in {"textfile_to_image", "save"}
    \/ pc = "exited" /\ exception = None

\* C7: when the render stage starts the text file is completely written, and
\* from then on, whether rendering and saving succeed or fail, it holds
\* exactly the text that was written.
C7_TextArtifactCommitted ==
    RenderStarted =>
        /\ text_filename \in DOMAIN fs.files
        /\ fs.files[text_filename] = ascii_img_text

C7_Witness ==
    /\ pc = "exited"
    /\ exception # None
    /\ exception[1].raised_in = "textfile_to_image"
    /\ exit_status = Some(-1)
    /\ ascii_img_text # <<>>
    /\ fs.files[text_filename] = ascii_img_text

\* the input image was missing or could not be decoded
DecodeFailed ==
    /\ exception # None
    /\ \/ /\ exception[1].raised_in = "get_user_config"
          /\ exception[1].type \in {"FileNotFoundError", "UnidentifiedImageError"}
       \/ /\ opened_image.truncated
          /\ exception[1].type = "OSError"
          /\ exception[1].raised_in \in {"resize", "generate_ascii_art"}

\* C8: when the input image is missing or cannot be decoded the run ends in
\* the top-level handler with exit status -1, and it has created no text file,
\* no image file and no output directory.
C8_DecodeErrorNoArtifacts ==
    DecodeFailed =>
        /\ fs.created = {}
        /\ canvas = None
        /\ pc \in {"except", "exited"}
        /\ pc = "exited" => exit_status = Some(-1)

C8_Witness ==
    /\ pc = "exited"
    /\ exception # None
    /\ exception[1].type = "UnidentifiedImageError"
    /\ exit_status = Some(-1)
    /\ args.output = Some(<<"out", "art">>)
    /\ fs.dirs = {}

\* C9: get_font_object picks the user-supplied font file when it is set and
\* exists, otherwise the first existing path of the platform's list, with a
\* warning when a user font was given and is missing and warnings are enabled;
\* when no candidate exists or the operating system is not a recognized one it
\* raises the FileNotFoundError and returns no font.
C9_FontResolution ==
    pc \in {"returned", "raised"} =>
        LET candidates == IF possible_fonts(env.operating_system) = None THEN <<>>
                          ELSE possible_fonts(env.operating_system)[1]
            first == FirstExisting(candidates, env)
            Picked(path) ==
                \/ font # None /\ font[1].path = path /\ exception = None
                \/ path \in env.unreadable /\ font = None
                                           /\ exception # None /\ exception[1].type = "OSError"
            Warned == \E i \in 1..Len(stdout) :
                         stdout[i] = "Warning: could not find user-specified font file"
        IN  IF user_font_file # "" /\ user_font_file \in env.font_files
                THEN Picked(user_font_file) /\ ~Warned
            ELSE IF first # None
                THEN /\ Picked(first[1])
                     /\ Warned <=> (show_warnings /\ user_font_file # "")
            ELSE /\ font = None
                 /\ exception # None
                 /\ exception[1].type = "FileNotFoundError"

\* C10: for every sequence of right-trimmed lines, the empty sequence and
\* all-empty lines included, the renderer does not fail, the canvas height is
\* ceil(lineHeight * lineCount) with lineHeight the height of the tallest line,
\* or of the reference glyph "M" when the lines are empty, and the canvas width
\* is the ceiling of the widest line's width.
C10_CanvasSize ==
    (pc # "textfile_to_image" /\ get_font_object(user_font_file, env, TRUE).exc = None) =>
        LET lines == read_all_lines_rstrip(fs, text_filename).val
            n == Len(lines)
            heights == {getbbox(font, lines[i], env)[4] : i \in 1..n}
            widths == {getbbox(font, lines[i], env)[3] : i \in 1..n}
            lineHeight == IF \A i \in 1..n : lines[i] = <<>> THEN Mbox_height
                          ELSE Max(heights)
            widest == IF n = 0 THEN 0 ELSE Max(widths)
        IN  /\ exception = None
            /\ canvas # None
            /\ canvas[1].height = CeilDiv(lineHeight * n, MetricDen)
            /\ canvas[1].width = CeilDiv(widest, MetricDen)

====
